---------------------------- MODULE Spec2Model ----------------------------
(***************************************************************************)
(* Model of ignite/distributed/comp_models/base.py: the ComputationModel   *)
(* base class (topology derivation, string codec, casting wrapper and the  *)
(* three collectives) and the single-process _SerialModel.                 *)
(*                                                                         *)
(* Four specifications share the module, one per part of the class:        *)
(*   SpecTopo   _setup_attrs on one model instance                         *)
(*   SpecCodec  _encode_str / _decode_str                                   *)
(*   SpecApply  _apply_op around one backend primitive call                *)
(*   SpecColl   all_reduce / all_gather / broadcast of the base class in a *)
(*              group of processes, and of _SerialModel                    *)
(***************************************************************************)
EXTENDS Integers, Sequences, FiniteSets, TLC

VARIABLES
    \* ---- ComputationModel instance (SpecTopo) ----
    world_size,        \* get_world_size(), fixed for the instance
    rank,              \* get_rank(), fixed for the instance
    nproc_per_node,    \* self._nproc_per_node : None or <<n>>
    nnodes,            \* self._nnodes         : None or <<n>>
    node,              \* self._node           : None or <<n>>
    topoHist,          \* history: pre-supplied fields, probe calls, writes
    \* ---- string codec (SpecCodec) ----
    codec,             \* a string, its _encode_str and the _decode_str of that
    \* ---- casting wrapper (SpecApply) ----
    applyCall,         \* the arguments of an _apply_op call and its outcome
    \* ---- collectives (SpecColl) ----
    group,             \* the process group and the operand each rank holds
    primCalls,         \* number of calls of _do_all_reduce/_do_all_gather/_do_broadcast
    baseCall,          \* last group-wide collective of the base class
    serialCall         \* last collective of _SerialModel

vars == <<world_size, rank, nproc_per_node, nnodes, node, topoHist,
          codec, applyCall, group, primCalls, baseCall, serialCall>>

topoVars == <<world_size, rank, nproc_per_node, nnodes, node, topoHist>>

(***************************************************************************)
(* Optional values: Python's None and a present value.                     *)
(***************************************************************************)
None == <<>>
Some(v) == <<v>>
Val(o) == o[1]

Max(a, b) == IF a >= b THEN a ELSE b
Min(a, b) == IF a <= b THEN a ELSE b

(***************************************************************************)
(* Text.  A Python str is a sequence of code points; len(x) and x[:size]   *)
(* count code points.  bytearray(x, "utf-8") is the UTF-8 encoding.        *)
(***************************************************************************)
Utf8OfCodePoint(cp) ==
    IF cp < 128 THEN <<cp>>
    ELSE IF cp < 2048 THEN <<192 + (cp \div 64), 128 + (cp % 64)>>
    ELSE IF cp < 65536 THEN
        <<224 + (cp \div 4096), 128 + ((cp \div 64) % 64), 128 + (cp % 64)>>
    ELSE <<240 + (cp \div 262144), 128 + ((cp \div 4096) % 64),
           128 + ((cp \div 64) % 64), 128 + (cp % 64)>>

RECURSIVE Utf8Encode(_)
Utf8Encode(s) ==
    IF Len(s) = 0 THEN <<>>
    ELSE IF Len(s) = 1 THEN Utf8OfCodePoint(s[1])
    ELSE LET h == Len(s) \div 2
         IN  Utf8Encode(SubSeq(s, 1, h)) \o Utf8Encode(SubSeq(s, h + 1, Len(s)))

IsContinuation(b) == b >= 128 /\ b < 192

\* Number of bytes announced by a lead byte; 0 for a byte that cannot lead.
Utf8Width(b) ==
    IF b < 128 THEN 1
    ELSE IF b >= 194 /\ b < 224 THEN 2
    ELSE IF b >= 224 /\ b < 240 THEN 3
    ELSE IF b >= 240 /\ b < 245 THEN 4
    ELSE 0

Utf8CodePointAt(bs, p) ==
    LET w == Utf8Width(bs[p])
    IN  IF w = 1 THEN bs[p]
        ELSE IF w = 2 THEN (bs[p] - 192) * 64 + (bs[p + 1] - 128)
        ELSE IF w = 3 THEN
            (bs[p] - 224) * 4096 + (bs[p + 1] - 128) * 64 + (bs[p + 2] - 128)
        ELSE (bs[p] - 240) * 262144 + (bs[p + 1] - 128) * 4096
             + (bs[p + 2] - 128) * 64 + (bs[p + 3] - 128)

\* A well-formed sequence at lead position p: the announced continuation
\* bytes follow, the next byte starts a new character, and the code point
\* is neither overlong, a surrogate, nor beyond U+10FFFF.
Utf8WellFormedAt(bs, p) ==
    LET w == Utf8Width(bs[p])
    IN  /\ w > 0
        /\ p + w - 1 <= Len(bs)
        /\ \A k \in 1..(w - 1) : IsContinuation(bs[p + k])
        /\ (p + w <= Len(bs) => ~IsContinuation(bs[p + w]))
        /\ LET cp == Utf8CodePointAt(bs, p)
           IN  /\ (w = 3 => cp >= 2048 /\ ~(cp >= 55296 /\ cp < 57344))
               /\ (w = 4 => cp >= 65536 /\ cp < 1114112)

\* bytes.decode("utf-8"): [ok |-> TRUE, str |-> code points] or the error.
Utf8Decode(bs) ==
    LET isLead(p) == ~IsContinuation(bs[p])
        leads == SelectSeq([p \in 1..Len(bs) |-> p], isLead)
    IN  IF /\ (Len(bs) > 0 => isLead(1))
           /\ \A k \in 1..Len(leads) : Utf8WellFormedAt(bs, leads[k])
        THEN [ok |-> TRUE,
              str |-> [k \in 1..Len(leads) |-> Utf8CodePointAt(bs, leads[k])]]
        ELSE [ok |-> FALSE, err |-> "UnicodeDecodeError"]

(***************************************************************************)
(* Tensors: element dtype, location, shape (sequence of dimensions) and    *)
(* the elements in row-major order.                                        *)
(***************************************************************************)
Tensor(dtype, device, shape, data) ==
    [dtype |-> dtype, device |-> device, shape |-> shape, data |-> data]

numel(t) == Len(t.data)

\* Row i of a two-dimensional tensor.
Row(t, i) == SubSeq(t.data, (i - 1) * t.shape[2] + 1, i * t.shape[2])


Devices == {"cpu", "cuda"}

(***************************************************************************)
(* ComputationModel._encode_str (static).                                  *)
(*   [ok |-> TRUE, warned, tensor]   the (1, size + 1) tensor returned      *)
(*   [ok |-> FALSE, warned, err]     the exception raised                   *)
(* padded_x[: len(name)] = name assigns len(name) elements to a slice of   *)
(* min(len(name), size + 1) elements; torch raises RuntimeError when the   *)
(* two sizes differ.  padded_x[-1] = len(name) then overwrites the last    *)
(* element.                                                                *)
(***************************************************************************)
size == 1024

_encode_str(x, device) ==
    LET warned == Len(x) > size
        x1 == IF warned THEN SubSeq(x, 1, size) ELSE x
        name == Utf8Encode(x1)
        sliceLen == Min(Len(name), size + 1)
        padded_x == [i \in 1..(size + 1) |->
                        IF i = size + 1 THEN Len(name)
                        ELSE IF i <= Len(name) THEN name[i]
                        ELSE 0]
    IN  IF Len(name) # sliceLen
        THEN [ok |-> FALSE, warned |-> warned, err |-> "RuntimeError"]
        ELSE [ok |-> TRUE, warned |-> warned,
              tensor |-> Tensor("int64", device, <<1, size + 1>>, padded_x)]

\* Python's x[:n] on a list of length Len(x).
SliceTo(x, n) ==
    IF n >= 0 THEN SubSeq(x, 1, Min(n, Len(x)))
    ELSE SubSeq(x, 1, Max(0, Len(x) + n))

\* bytearray(list).decode("utf-8"): bytearray raises ValueError on an element
\* outside 0..255.
DecodeRow(x) ==
    LET bs == SliceTo(x, x[Len(x)])
    IN  IF \E i \in 1..Len(bs) : bs[i] < 0 \/ bs[i] > 255
        THEN [ok |-> FALSE, err |-> "ValueError"]
        ELSE Utf8Decode(bs)

(***************************************************************************)
(* ComputationModel._decode_str (static): one string per row, in order;    *)
(* the first row that fails raises out of the comprehension.               *)
(***************************************************************************)
DecodedRows(rows) ==
    IF \A i \in 1..Len(rows) : rows[i].ok
    THEN [ok |-> TRUE, out |-> [i \in 1..Len(rows) |-> rows[i].str]]
    ELSE [ok |-> FALSE,
          err |-> rows[CHOOSE i \in 1..Len(rows) :
                          ~rows[i].ok /\ \A j \in 1..(i - 1) : rows[j].ok].err]

_decode_str(xs) == DecodedRows([i \in 1..xs.shape[1] |-> DecodeRow(Row(xs, i))])

(***************************************************************************)
(* Strings given to the codec: n1 copies of one character followed by n2   *)
(* copies of another, over characters of UTF-8 width 1, 2, 3 and 4.        *)
(***************************************************************************)
MaxTail == 2
LongLen == 2000

CodePoints == {97, 233, 8364, 128512}

MkStr(c1, n1, c2, n2) == [i \in 1..(n1 + n2) |-> IF i <= n1 THEN c1 ELSE c2]

HeadLens == {0, 1, size - 1, size, size + 1, LongLen}

CodecStrings ==
    {MkStr(c1, n1, c2, n2) : c1 \in CodePoints, n1 \in HeadLens,
                             c2 \in CodePoints, n2 \in 0..MaxTail}

CodecIdle == codec = [x |-> <<>>, device |-> "cpu", enc |-> None, dec |-> None]

CodecInit ==
    codec \in {[x |-> s, device |-> d, enc |-> None, dec |-> None] :
                  s \in CodecStrings, d \in Devices}

EncodeStr ==
    /\ codec' = [codec EXCEPT !.enc = Some(_encode_str(codec.x, codec.device)),
                              !.dec = None]
    /\ UNCHANGED <<topoVars, applyCall, group, primCalls, baseCall, serialCall>>

DecodeStr ==
    /\ codec.enc # None
    /\ Val(codec.enc).ok
    /\ codec.dec = None
    /\ codec' = [codec EXCEPT !.dec = Some(_decode_str(Val(codec.enc).tensor))]
    /\ UNCHANGED <<topoVars, applyCall, group, primCalls, baseCall, serialCall>>


(***************************************************************************)
(* Topology.  self is the part of the instance _setup_attrs reads and      *)
(* writes; probe is what _compute_nproc_per_node() returns if it is called.*)
(* Python's // on non-negative integers is \div.                            *)
(***************************************************************************)
MaxWorld == 8
MaxProbe == 4
MaxPre == 2
MaxSetupCalls == 3

Self == [world_size |-> world_size, rank |-> rank,
         nproc_per_node |-> nproc_per_node, nnodes |-> nnodes, node |-> node]

\* _setup_attrs with node_rank taken as the remainder (the local rank)
\* instead of the quotient.
_setup_attrs_remainder(self, probe) ==
    LET s1 == IF self.nproc_per_node = None
              THEN [self EXCEPT !.nproc_per_node =
                        Some(IF self.world_size > 1 THEN probe ELSE 1)]
              ELSE self
        s2 == IF s1.nnodes = None
              THEN [s1 EXCEPT !.nnodes = Some(s1.world_size \div Val(s1.nproc_per_node))]
              ELSE s1
        s3 == IF s2.node = None
              THEN [s2 EXCEPT !.node = Some(s2.rank % Val(s2.nproc_per_node))]
              ELSE s2
    IN  [self |-> s3, probed |-> self.nproc_per_node = None /\ self.world_size > 1]

\* _setup_attrs without the "is None" tests: every call derives anew.
_setup_attrs_unguarded(self, probe) ==
    LET np == IF self.world_size > 1 THEN probe ELSE 1
    IN  [self |-> [self EXCEPT !.nproc_per_node = Some(np),
                               !.nnodes = Some(self.world_size \div np),
                               !.node = Some(self.rank \div np)],
         probed |-> self.world_size > 1]

\* ComputationModel._setup_attrs: the instance after the call, and whether
\* the probe was invoked.
_setup_attrs(self, probe) ==
    LET probed == self.nproc_per_node = None /\ self.world_size > 1
        s1 == IF self.nproc_per_node = None
              THEN [self EXCEPT !.nproc_per_node =
                        Some(IF self.world_size > 1 THEN probe ELSE 1)]
              ELSE self
        s2 == IF s1.nnodes = None
              THEN [s1 EXCEPT !.nnodes = Some(s1.world_size \div Val(s1.nproc_per_node))]
              ELSE s1
        s3 == IF s2.node = None
              THEN [s2 EXCEPT !.node = Some(s2.rank \div Val(s2.nproc_per_node))]
              ELSE s2
    IN  [self |-> s3, probed |-> probed]

\* ComputationModel.__init__ leaves the three fields None; an external
\* runtime may pre-supply any of them before the first derivation.
TopoInit ==
    /\ world_size \in 1..MaxWorld
    /\ rank \in 0..(world_size - 1)
    /\ nproc_per_node \in {None} \cup {Some(n) : n \in 1..MaxProbe}
    /\ nnodes \in {None} \cup {Some(n) : n \in 1..MaxPre}
    /\ node \in {None} \cup {Some(n) : n \in 0..(MaxPre - 1)}
    /\ topoHist = [pre |-> [nproc_per_node |-> nproc_per_node,
                            nnodes |-> nnodes, node |-> node],
                   setupCalls |-> 0, probeCalls |-> 0, lastProbe |-> None]

SetupAttrs ==
    /\ topoHist.setupCalls < MaxSetupCalls
    /\ \E probe \in 1..MaxProbe :
          LET r == _setup_attrs(Self, probe)
          IN  /\ nproc_per_node' = r.self.nproc_per_node
              /\ nnodes' = r.self.nnodes
              /\ node' = r.self.node
              /\ topoHist' = [topoHist EXCEPT
                     !.setupCalls = @ + 1,
                     !.probeCalls = IF r.probed THEN @ + 1 ELSE @,
                     !.lastProbe = IF r.probed THEN Some(probe) ELSE @]
    /\ UNCHANGED <<world_size, rank, codec, applyCall, group, primCalls, baseCall,
                   serialCall>>


(***************************************************************************)
(* Element dtypes.  Model values are non-negative integers below 2^30, so  *)
(* every one is exact in int32, int64 and float64; float32 keeps 24        *)
(* significant bits and float16 keeps 11 (round to nearest, ties to even). *)
(***************************************************************************)
Dtypes == {"int32", "int64", "float16", "float32", "float64"}

\* torch's is_floating_point.
IsFloating(dtype) == dtype \in {"float16", "float32", "float64"}

\* The test of _apply_op: tensor.dtype in (torch.float32, torch.float64).
IsFloatX(dtype) == dtype \in {"float32", "float64"}

F32Limit == 2^24
F16Limit == 2^11

Log2Floor(n) == CHOOSE j \in 0..29 : 2^j <= n /\ n < 2^(j + 1)

\* v rounded to the nearest multiple of q, ties to the even multiple.
RoundToMultiple(v, q) ==
    LET r == v % q
        base == v - r
    IN  IF 2 * r < q THEN base
        ELSE IF 2 * r > q THEN base + q
        ELSE IF (base \div q) % 2 = 0 THEN base ELSE base + q

\* v in a floating type whose significand holds integers below limit.
RoundToLimit(v, limit) ==
    IF v < limit THEN v ELSE RoundToMultiple(v, 2 * 2^Log2Floor(v \div limit))

\* The value of element v after tensor.to(dtype).
CastVal(v, dtype) ==
    IF IsFloating(dtype) /\ dtype # "float64"
    THEN RoundToLimit(v, IF dtype = "float32" THEN F32Limit ELSE F16Limit)
    ELSE v

CastData(data, dtype) == [i \in 1..Len(data) |-> CastVal(data[i], dtype)]

\* tensor.to(dtype=...), tensor.to(device=...): a new tensor, the operand
\* itself is not modified.
to_dtype(t, dtype) == [t EXCEPT !.dtype = dtype, !.data = CastData(t.data, dtype)]
to_device(t, device) == [t EXCEPT !.device = device]

(***************************************************************************)
(* Backend primitives.  _do_all_reduce, _do_all_gather and _do_broadcast   *)
(* are abstract in the base class; a backend call is described by          *)
(*   fn = [name, fails, src, rank, group]                                  *)
(* where group[r + 1] is the tensor rank r hands to the primitive and      *)
(* fails says that the backend raises.  The result has the dtype and the   *)
(* location of the tensor handed in.                                       *)
(***************************************************************************)
PrimNames == {"_do_all_reduce", "_do_all_gather", "_do_broadcast"}

RECURSIVE SumAt(_, _, _)
SumAt(g, i, n) == IF n = 0 THEN 0 ELSE g[n].data[i] + SumAt(g, i, n - 1)

RECURSIVE ConcatData(_, _)
ConcatData(g, n) == IF n = 0 THEN <<>> ELSE ConcatData(g, n - 1) \o g[n].data

_do_all_reduce(t, g) ==
    [t EXCEPT !.data = [i \in 1..Len(t.data) |-> CastVal(SumAt(g, i, Len(g)), t.dtype)]]

_do_all_gather(t, g) ==
    [t EXCEPT !.shape = IF t.shape = <<>> THEN <<Len(g)>>
                        ELSE <<Len(g) * t.shape[1]>> \o Tail(t.shape),
              !.data = ConcatData(g, Len(g))]

_do_broadcast(t, g, src) ==
    [t EXCEPT !.data = CastData(g[src + 1].data, t.dtype)]

InvokeOn(fn, t, g) ==
    IF fn.name = "_do_all_reduce" THEN _do_all_reduce(t, g)
    ELSE IF fn.name = "_do_all_gather" THEN _do_all_gather(t, g)
    ELSE _do_broadcast(t, g, fn.src)

\* fn(tensor, *args): the primitive of rank fn.rank, given tensor t.
Invoke(fn, t) == InvokeOn(fn, t, [fn.group EXCEPT ![fn.rank + 1] = t])

(***************************************************************************)
(* ComputationModel._apply_op.  self carries _collective_op_dtype ("None"  *)
(* when unset).  The call is modelled in its three parts: ApplyEnter       *)
(* (lines 113-125), the primitive (line 127) and ApplyReturn (129-135).    *)
(*   fnArg         the tensor handed to the primitive                      *)
(*   tensor_device, out_dtype   the locals of the same names               *)
(*   reverted      whether a .to(...) of lines 129-134 was executed        *)
(*   raised / out  the exception that leaves the call, or the result       *)
(***************************************************************************)
ApplyEnter(self, tensor, device) ==
    LET tensor_device == IF tensor.device # device THEN Some(tensor.device) ELSE None
        t1 == IF tensor.device # device THEN to_device(tensor, device) ELSE tensor
        cast == self.collective_op_dtype # "None" /\ ~IsFloatX(tensor.dtype)
    IN  [tensor |-> IF cast THEN to_dtype(t1, self.collective_op_dtype) ELSE t1,
         tensor_device |-> tensor_device,
         out_dtype |-> IF cast THEN Some(tensor.dtype) ELSE None]

ApplyReturn(e, r) ==
    [raised |-> FALSE,
     out |-> IF e.out_dtype # None /\ e.tensor_device # None
             THEN to_device(to_dtype(r, Val(e.out_dtype)), Val(e.tensor_device))
             ELSE IF e.out_dtype # None THEN to_dtype(r, Val(e.out_dtype))
             ELSE IF e.tensor_device # None THEN to_device(r, Val(e.tensor_device))
             ELSE r,
     fnArg |-> e.tensor, tensor_device |-> e.tensor_device, out_dtype |-> e.out_dtype,
     reverted |-> e.out_dtype # None \/ e.tensor_device # None]

\* No try/finally surrounds line 127: an exception of the primitive leaves
\* _apply_op at once.
ApplyCall(e, fn) ==
    IF fn.fails
    THEN [raised |-> TRUE, err |-> "BackendError", fnArg |-> e.tensor,
          tensor_device |-> e.tensor_device, out_dtype |-> e.out_dtype,
          reverted |-> FALSE]
    ELSE ApplyReturn(e, Invoke(fn, e.tensor))

\* _apply_op that forgets out_dtype: the result stays in the collective dtype.
_apply_op_keeps_cast(self, tensor, device, fn) ==
    ApplyCall([ApplyEnter(self, tensor, device) EXCEPT !.out_dtype = None], fn)

_apply_op(self, tensor, device, fn) == ApplyCall(ApplyEnter(self, tensor, device), fn)

(***************************************************************************)
(* Buffers handed to _apply_op: every dtype and location, with elements    *)
(* that the dtype can hold.                                                *)
(***************************************************************************)
MaxBufLen == 2

\* The smallest integer float32 cannot hold.
BigInt == F32Limit + 1

BufValues == {3, BigInt}

RECURSIVE SeqsOfLen(_, _)
SeqsOfLen(S, n) ==
    IF n = 0 THEN {<<>>} ELSE {Append(s, v) : s \in SeqsOfLen(S, n - 1), v \in S}

BufData(dt) ==
    {s \in UNION {SeqsOfLen(BufValues, n) : n \in 1..MaxBufLen} :
        \A i \in 1..Len(s) : CastVal(s[i], dt) = s[i]}

Buffers ==
    UNION {{Tensor(dt, dev, <<Len(d)>>, d) : d \in BufData(dt)} :
              dt \in Dtypes, dev \in Devices}

CollectiveDtypes == {"None", "float32", "float64"}

ApplyCalls ==
    {[self |-> [collective_op_dtype |-> cd], tensor |-> tensor, device |-> device,
      fn |-> [name |-> name, fails |-> fails, src |-> 0, rank |-> 0,
              group |-> <<tensor>>],
      res |-> None] :
        cd \in CollectiveDtypes, tensor \in Buffers, device \in Devices,
        name \in PrimNames, fails \in BOOLEAN}

ApplyIdle == applyCall = CHOOSE c \in ApplyCalls : TRUE

ApplyInit == applyCall \in ApplyCalls

\* One process calls _apply_op on a buffer around one primitive.
ApplyOp ==
    /\ applyCall' = [applyCall EXCEPT
           !.res = Some(_apply_op(applyCall.self, applyCall.tensor, applyCall.device,
                                  applyCall.fn))]
    /\ UNCHANGED <<topoVars, codec, group, primCalls, baseCall, serialCall>>

(***************************************************************************)
(* Operands of the collectives and what a call returns.                    *)
(*   [kind |-> "number", pytype, val]   a Python int or float              *)
(*   [kind |-> "str", str]              a Python str                       *)
(*   [kind |-> "tensor", t]             a torch.Tensor                     *)
(*   [kind |-> "list", items]           a Python list (results only)       *)
(*   [kind |-> "other"]                 anything else, e.g. a dict         *)
(* A call ends [status |-> "returned", value], [status |-> "raised", err]  *)
(* or, when another rank never reaches the primitive, "blocked"; prim is   *)
(* the number of primitive invocations the call made.                      *)
(***************************************************************************)
Number(pytype, val) == [kind |-> "number", pytype |-> pytype, val |-> val]
Str(s) == [kind |-> "str", str |-> s]
TensorOp(t) == [kind |-> "tensor", t |-> t]
List(items) == [kind |-> "list", items |-> items]
Other == [kind |-> "other"]

Returned(v, prim) == [status |-> "returned", value |-> v, prim |-> prim]
Raised(err, prim) == [status |-> "raised", err |-> err, prim |-> prim]
Blocked == [status |-> "blocked", prim |-> 1]

\* torch.tensor(x, device=device, dtype=dtype) of a Python number: a
\* 0-dimensional tensor; dtype None infers int64 from an int and the default
\* float32 from a float.
InferDtype(x, dtype) ==
    IF dtype # "None" THEN dtype ELSE IF x.pytype = "int" THEN "int64" ELSE "float32"

TensorOf(val, dt, device) == Tensor(dt, device, <<>>, <<CastVal(val, dt)>>)

torch_tensor(x, device, dtype) == TensorOf(x.val, InferDtype(x, dtype), device)

\* tensor.item(), tensor.tolist() of a one-dimensional tensor.
PyNumber(v, dtype) == Number(IF IsFloating(dtype) THEN "float" ELSE "int", v)
item(t) == PyNumber(t.data[1], t.dtype)
tolist(t) == List([i \in 1..Len(t.data) |-> PyNumber(t.data[i], t.dtype)])

\* Lines 140-147 of _collective_op: the operand as a tensor, or the error of
\* _encode_str.
ToTensor(self, x) ==
    IF x.kind = "number"
    THEN [ok |-> TRUE, tensor |-> torch_tensor(x, self.device, self.collective_op_dtype)]
    ELSE IF x.kind = "str" THEN _encode_str(x.str, self.device)
    ELSE [ok |-> TRUE, tensor |-> x.t]

\* The primitive as rank self.rank calls it: self._do_all_reduce etc.  env
\* describes the backend during the call: the tensors the ranks hand to the
\* primitive and whether it raises.
Fn(name, self, env) ==
    [name |-> name, fails |-> env.fails, src |-> env.src, rank |-> self.rank,
     group |-> env.group]

StrList(d) ==
    IF d.ok THEN Returned(List([i \in 1..Len(d.out) |-> Str(d.out[i])]), 1)
    ELSE Raised(d.err, 1)

\* Lines 151-158 of _collective_op.
CollectiveReturn(x, a) ==
    IF a.raised THEN Raised(a.err, 1)
    ELSE IF x.kind = "number"
    THEN Returned(IF numel(a.out) = 1 THEN item(a.out) ELSE tolist(a.out), 1)
    ELSE IF x.kind = "str" THEN StrList(_decode_str(a.out))
    ELSE Returned(TensorOp(a.out), 1)

CollectiveApply(self, x, p, fn) ==
    IF ~p.ok THEN Raised(p.err, 0)
    ELSE CollectiveReturn(x, _apply_op(self, p.tensor, self.device, fn))

\* ComputationModel._collective_op
_collective_op(self, x, name, env) ==
    CollectiveApply(self, x, ToTensor(self, x), Fn(name, self, env))

\* all_reduce with the isinstance test of all_gather: a str is let through.
all_reduce_accepts_str(self, x, env) ==
    IF x.kind \notin {"tensor", "number", "str"} THEN Raised("TypeError", 0)
    ELSE _collective_op(self, x, "_do_all_reduce", env)

\* ComputationModel.all_reduce
all_reduce(self, x, env) ==
    IF x.kind \notin {"tensor", "number"} THEN Raised("TypeError", 0)
    ELSE _collective_op(self, x, "_do_all_reduce", env)

\* ComputationModel.all_gather
all_gather(self, x, env) ==
    IF x.kind \notin {"tensor", "number", "str"} THEN Raised("TypeError", 0)
    ELSE _collective_op(self, x, "_do_all_gather", env)

\* Lines 176-192 of broadcast: the tensor handed to _apply_op.  torch.empty
\* is uninitialised memory: uninit is whatever it holds.
BroadcastTensor(self, x, src, uninit) ==
    IF x.kind = "number"
    THEN [ok |-> TRUE,
          tensor |-> Tensor("float32", self.device, <<1>>,
                            <<IF self.rank # src THEN uninit
                              ELSE CastVal(x.val, "float32")>>)]
    ELSE IF x.kind = "str"
    THEN IF self.rank # src
         THEN [ok |-> TRUE,
               tensor |-> Tensor("int64", self.device, <<1, size + 1>>,
                                 [i \in 1..(size + 1) |-> uninit])]
         ELSE _encode_str(x.str, self.device)
    ELSE [ok |-> TRUE, tensor |-> x.t]

FirstStr(d) == IF d.ok THEN Returned(Str(d.out[1]), 1) ELSE Raised(d.err, 1)

\* Lines 196-201 of broadcast.
BroadcastReturn(x, a) ==
    IF a.raised THEN Raised(a.err, 1)
    ELSE IF x.kind = "number" THEN Returned(item(a.out), 1)
    ELSE IF x.kind = "str" THEN FirstStr(_decode_str(a.out))
    ELSE Returned(TensorOp(a.out), 1)

BroadcastApply(self, x, p, fn) ==
    IF ~p.ok THEN Raised(p.err, 0)
    ELSE BroadcastReturn(x, _apply_op(self, p.tensor, self.device, fn))

\* ComputationModel.broadcast
broadcast(self, x, src, uninit, env) ==
    IF x.kind \notin {"tensor", "number", "str"} THEN Raised("TypeError", 0)
    ELSE BroadcastApply(self, x, BroadcastTensor(self, x, src, uninit),
                        Fn("_do_broadcast", self, env))

(***************************************************************************)
(* _SerialModel: rank 0 of a world of 1; its collectives return the        *)
(* operand and call no primitive.                                          *)
(***************************************************************************)
_SerialModel_all_reduce(x) == Returned(x, 0)

_SerialModel_all_gather(x) ==
    IF x.kind = "tensor" THEN Returned(x, 0) ELSE Returned(List(<<x>>), 0)

_SerialModel_broadcast(x) == Returned(x, 0)

(***************************************************************************)
(* A group of n processes, ranks 0..n-1, all issuing the same collective   *)
(* on operands of one kind (and, for tensors, one dtype and location),     *)
(* each through the base-class method.  A rank that raises before it       *)
(* reaches the primitive leaves the others blocked in it.                  *)
(***************************************************************************)
MaxRanks == 2
MaxPrimCalls == 2

Uninit == {0, 7}

NumberOperands == {Number(p, v) : p \in {"int", "float"}, v \in {3, BigInt}}

CollStrings == {MkStr(97, 2, 233, 1), MkStr(233, size, 97, 0)}

StrOperands == {Str(s) : s \in CollStrings}

CollBuffers ==
    {b \in Buffers : Len(b.data) = 1 /\ b.dtype \in {"int64", "float16", "float32"}}

OperandTuples(n) ==
    [1..n -> NumberOperands] \cup [1..n -> StrOperands]
    \cup {[i \in 1..n |-> TensorOp(ts[i])] :
             ts \in {f \in [1..n -> CollBuffers] :
                        \A i \in 1..n : f[i].dtype = f[1].dtype /\ f[i].device = f[1].device}}
    \cup {[i \in 1..n |-> Other]}

GroupSelf(g, r) ==
    [collective_op_dtype |-> g.collective_op_dtype, device |-> g.device, rank |-> r]

\* What each rank hands to _apply_op.
GroupPrepared(g, op, src, uninit) ==
    [i \in 1..g.n |->
        IF op = "broadcast" THEN BroadcastTensor(GroupSelf(g, i - 1), g.xs[i], src, uninit)
        ELSE ToTensor(GroupSelf(g, i - 1), g.xs[i])]

Arrived(prepared) == \A i \in 1..Len(prepared) : prepared[i].ok

\* With a rank missing, the primitive does not return on the others.
GroupEnv(g, src, prepared, arrived) ==
    [fails |-> g.fails \/ ~arrived, src |-> src,
     group |-> IF arrived
               THEN [i \in 1..g.n |->
                        ApplyEnter(GroupSelf(g, i - 1), prepared[i].tensor, g.device).tensor]
               ELSE <<>>]

GroupCalls(g, op, src, uninit, env) ==
    [i \in 1..g.n |->
        IF op = "all_reduce" THEN all_reduce(GroupSelf(g, i - 1), g.xs[i], env)
        ELSE IF op = "all_gather" THEN all_gather(GroupSelf(g, i - 1), g.xs[i], env)
        ELSE broadcast(GroupSelf(g, i - 1), g.xs[i], src, uninit, env)]

GroupSettle(res, arrived) ==
    [i \in 1..Len(res) |-> IF res[i].prim = 1 /\ ~arrived THEN Blocked ELSE res[i]]

GroupRun(g, op, src, uninit, prepared) ==
    GroupSettle(GroupCalls(g, op, src, uninit,
                           GroupEnv(g, src, prepared, Arrived(prepared))),
                Arrived(prepared))

GroupResults(g, op, src, uninit) ==
    GroupRun(g, op, src, uninit, GroupPrepared(g, op, src, uninit))

RECURSIVE PrimSum(_, _)
PrimSum(res, n) == IF n = 0 THEN 0 ELSE res[n].prim + PrimSum(res, n - 1)

NoCall == [op |-> "none"]

Groups ==
    UNION {{[n |-> n, collective_op_dtype |-> cd, device |-> device, fails |-> fails,
             xs |-> xs] : xs \in OperandTuples(n)} :
              n \in 1..MaxRanks, cd \in CollectiveDtypes, device \in Devices,
              fails \in BOOLEAN}

CollIdle ==
    /\ group = [n |-> 1, collective_op_dtype |-> "None", device |-> "cpu",
                fails |-> FALSE, xs |-> <<Other>>]
    /\ primCalls = 0
    /\ baseCall = NoCall
    /\ serialCall = NoCall

CollInit ==
    /\ group \in Groups
    /\ primCalls = 0
    /\ baseCall = NoCall
    /\ serialCall = NoCall

\* Every rank of the group calls the collective op of the base class.
GroupDone(op, src, res) ==
    /\ baseCall' = [op |-> op, src |-> src, results |-> res]
    /\ primCalls' = primCalls + PrimSum(res, Len(res))
    /\ serialCall' = NoCall
    /\ UNCHANGED <<topoVars, codec, applyCall, group>>

GroupCall(op, src, uninit) ==
    /\ primCalls + group.n <= MaxPrimCalls
    /\ GroupDone(op, src, GroupResults(group, op, src, uninit))

AllReduce == GroupCall("all_reduce", 0, 0)

AllGather == GroupCall("all_gather", 0, 0)

Broadcast ==
    \E src \in 0..(group.n - 1), uninit \in Uninit : GroupCall("broadcast", src, uninit)

\* The serial model asked the same question as the single process of the
\* last base-class call.
SerialCall(op, result) ==
    /\ baseCall.op # "none"
    /\ group.n = 1
    /\ serialCall' = [op |-> op, x |-> group.xs[1], result |-> result]
    /\ UNCHANGED <<topoVars, codec, applyCall, group, primCalls, baseCall>>

SerialAllReduce == SerialCall("all_reduce", _SerialModel_all_reduce(group.xs[1]))
SerialAllGather == SerialCall("all_gather", _SerialModel_all_gather(group.xs[1]))
SerialBroadcast == SerialCall("broadcast", _SerialModel_broadcast(group.xs[1]))

(***************************************************************************)
(* Specifications.                                                         *)
(***************************************************************************)
\* A freshly constructed instance of a world of one (ComputationModel.__init__).
IdleTopo ==
    /\ world_size = 1
    /\ rank = 0
    /\ nproc_per_node = None
    /\ nnodes = None
    /\ node = None
    /\ topoHist = [pre |-> [nproc_per_node |-> None, nnodes |-> None, node |-> None],
                   setupCalls |-> 0, probeCalls |-> 0, lastProbe |-> None]

InitTopo == TopoInit /\ CodecIdle /\ ApplyIdle /\ CollIdle
NextTopo == SetupAttrs
SpecTopo == InitTopo /\ [][NextTopo]_vars

InitCodec == IdleTopo /\ CodecInit /\ ApplyIdle /\ CollIdle
NextCodec == EncodeStr \/ DecodeStr
SpecCodec == InitCodec /\ [][NextCodec]_vars

InitApply == IdleTopo /\ CodecIdle /\ ApplyInit /\ CollIdle
NextApply == ApplyOp
SpecApply == InitApply /\ [][NextApply]_vars

InitColl == IdleTopo /\ CodecIdle /\ ApplyIdle /\ CollInit
NextColl ==
    \/ AllReduce
    \/ AllGather
    \/ Broadcast
    \/ SerialAllReduce
    \/ SerialAllGather
    \/ SerialBroadcast
SpecColl == InitColl /\ [][NextColl]_vars

(***************************************************************************)
(* Properties.                                                             *)
(***************************************************************************)
\* Python's == on what the collectives return: an int and a float of the
\* same value are equal, lists compare item by item, tensors by dtype,
\* location, shape and elements.
ItemEq(a, b) ==
    /\ a.kind = b.kind
    /\ (a.kind = "number" => a.val = b.val)
    /\ (a.kind = "str" => a.str = b.str)
    /\ (a.kind = "tensor" => a.t = b.t)

PyEq(a, b) ==
    /\ a.kind = b.kind
    /\ IF a.kind = "list"
       THEN /\ Len(a.items) = Len(b.items)
            /\ \A i \in 1..Len(a.items) : ItemEq(a.items[i], b.items[i])
       ELSE ItemEq(a, b)

Kinds == {"number", "str", "tensor"}

\* C1: in a world of one, for a number, string or buffer operand, each
\* collective of _SerialModel returns the same value, in the same outer
\* shape, as the base-class pipeline returns for that operand over
\* single-process primitives.
C1_SerialMatchesBase ==
    (/\ serialCall.op # "none"
     /\ serialCall.op = baseCall.op
     /\ group.n = 1
     /\ ~group.fails
     /\ group.xs[1].kind \in Kinds)
    => /\ baseCall.results[1].status = "returned"
       /\ PyEq(serialCall.result.value, baseCall.results[1].value)

\* C2: a string of at most 1024 characters is encoded without error and
\* decoding the encoded row gives back exactly that string.
C2_RoundTrip ==
    (codec.enc # None /\ Len(codec.x) <= size)
    => /\ Val(codec.enc).ok
       /\ (codec.dec # None => Val(codec.dec) = [ok |-> TRUE, out |-> <<codec.x>>])

\* C3: all_reduce on an operand that is neither number nor buffer, and
\* all_gather or broadcast on one that is not number, string or buffer, raise
\* TypeError on every rank, with the primitive call count and the model
\* state left as they were.
Unsupported(op, x) ==
    IF op = "all_reduce" THEN x.kind \notin {"number", "tensor"}
    ELSE x.kind \notin {"number", "str", "tensor"}

C3_TypeErrorBeforePrimitive ==
    [][(baseCall'.op # "none" /\ \E i \in 1..group'.n : Unsupported(baseCall'.op, group'.xs[i]))
       => /\ \A i \in 1..group'.n :
                Unsupported(baseCall'.op, group'.xs[i])
                => baseCall'.results[i] = Raised("TypeError", 0)
          /\ primCalls' = primCalls
          /\ UNCHANGED topoVars]_vars

\* all_reduce of a string raised TypeError after an earlier collective had
\* called the primitive once.
C3_Witness ==
    /\ baseCall.op = "all_reduce"
    /\ group.xs[1].kind = "str"
    /\ baseCall.results[1] = Raised("TypeError", 0)
    /\ primCalls = 1

\* C4: after broadcast(x_r, src) on every rank of the group, every rank,
\* src included, has returned the value rank src passed in.
C4_BroadcastDeliversSrcValue ==
    (/\ baseCall.op = "broadcast"
     /\ ~group.fails
     /\ group.xs[1].kind \in Kinds)
    => \A i \in 1..group.n :
          /\ baseCall.results[i].status = "returned"
          /\ PyEq(baseCall.results[i].value, group.xs[baseCall.src + 1])

\* C5: whatever the collective dtype and the locations, a result returned by
\* _apply_op has the dtype and the location of the buffer passed in.
C5_ResultKeepsDtypeAndLocation ==
    (applyCall.res # None /\ ~Val(applyCall.res).raised)
    => /\ Val(applyCall.res).out.dtype = applyCall.tensor.dtype
       /\ Val(applyCall.res).out.device = applyCall.tensor.device

\* An integer buffer away from the compute location went through the
\* primitive in the collective dtype and came back.
C5_Witness ==
    /\ applyCall.res # None
    /\ ~Val(applyCall.res).raised
    /\ applyCall.tensor.dtype = "int64"
    /\ applyCall.self.collective_op_dtype = "float32"
    /\ applyCall.tensor.device # applyCall.device
    /\ Val(applyCall.res).fnArg.dtype = "float32"
    /\ Val(applyCall.res).fnArg.device = applyCall.device

\* C6: the buffer the primitive receives is on the compute location; with a
\* collective dtype configured, a buffer of a non-floating dtype arrives in
\* that dtype and a buffer of any floating dtype arrives in its own.
C6_PrimitiveSeesConfiguredDtype ==
    applyCall.res # None
    => /\ Val(applyCall.res).fnArg.device = applyCall.device
       /\ (applyCall.self.collective_op_dtype # "None"
           => Val(applyCall.res).fnArg.dtype =
                 IF IsFloating(applyCall.tensor.dtype) THEN applyCall.tensor.dtype
                 ELSE applyCall.self.collective_op_dtype)

\* C7: a string longer than 1024 characters is encoded without error, with
\* a warning, into 1025 elements whose last is 1024 and which decode to the
\* first 1024 characters; every stored length lies in 0..1024.
C7_TruncationNeverRaises ==
    codec.enc # None
    => /\ (Len(codec.x) > size
           => /\ Val(codec.enc).ok
              /\ Val(codec.enc).warned
              /\ numel(Val(codec.enc).tensor) = size + 1
              /\ Val(codec.enc).tensor.data[size + 1] = size
              /\ (codec.dec # None
                  => Val(codec.dec) = [ok |-> TRUE, out |-> <<SubSeq(codec.x, 1, size)>>]))
       /\ (Val(codec.enc).ok
           => /\ Val(codec.enc).tensor.data[size + 1] >= 0
              /\ Val(codec.enc).tensor.data[size + 1] <= size)

\* C8: when the primitive raises, its exception leaves _apply_op unchanged
\* and the relocation and the cast that were applied have been reverted on
\* the way out.
C8_FailureReverts ==
    (applyCall.res # None /\ Val(applyCall.res).raised)
    => /\ Val(applyCall.res).err = "BackendError"
       /\ ((Val(applyCall.res).out_dtype # None \/ Val(applyCall.res).tensor_device # None)
           => Val(applyCall.res).reverted)

\* C9: derivation on an instance with the three fields unresolved gives
\* nproc_per_node = 1 in a world of one and the probe's value otherwise,
\* nnodes = floor(world_size / nproc_per_node) and
\* node_rank = floor(rank / nproc_per_node).
IsFloorDiv(q, a, b) == q * b <= a /\ a < (q + 1) * b

C9_DerivedTopology ==
    (/\ topoHist.setupCalls > 0
     /\ topoHist.pre.nproc_per_node = None
     /\ topoHist.pre.nnodes = None
     /\ topoHist.pre.node = None)
    => /\ nproc_per_node =
             IF world_size = 1 THEN Some(1) ELSE topoHist.lastProbe
       /\ nnodes # None
       /\ IsFloorDiv(Val(nnodes), world_size, Val(nproc_per_node))
       /\ node # None
       /\ IsFloorDiv(Val(node), rank, Val(nproc_per_node))

\* 7 processes at 4 per node: one node, and rank 5 is on node 1.
C9_Witness ==
    /\ topoHist.setupCalls > 0
    /\ topoHist.pre = [nproc_per_node |-> None, nnodes |-> None, node |-> None]
    /\ world_size = 7
    /\ rank = 5
    /\ topoHist.lastProbe = Some(4)
    /\ nnodes = Some(1)
    /\ node = Some(1)

\* C10: over any sequence of derivations a field that holds a value keeps
\* it, and the probe is invoked at most once, and never in a world of one or
\* with nproc_per_node pre-supplied.
C10_ResolvedOnce ==
    [][/\ (nproc_per_node # None => nproc_per_node' = nproc_per_node)
       /\ (nnodes # None => nnodes' = nnodes)
       /\ (node # None => node' = node)
       /\ topoHist'.probeCalls <= 1
       /\ ((world_size = 1 \/ topoHist.pre.nproc_per_node # None)
           => topoHist'.probeCalls = 0)]_vars

\* A second derivation after one that probed, on an instance whose nnodes
\* was pre-supplied.
C10_Witness ==
    /\ topoHist.setupCalls >= 2
    /\ topoHist.probeCalls = 1
    /\ topoHist.pre.nnodes # None
    /\ nnodes = topoHist.pre.nnodes

=============================================================================
